---- MODULE Spec2Model ----
(***************************************************************************)
(* A model of swagger-api-gen: the cached schema loader (getJson), the     *)
(* name/type mapper, the declaration renderers and the generateApis run.   *)
(* The source holds two variants of the generator (src/src/                *)
(* swagger.interfaces.ts lines 84-533 and lines 535-900); definitions of   *)
(* the second variant carry the suffix _v2.                                *)
(*                                                                         *)
(* Text is modelled by TLA+ strings: a JavaScript string is the string of  *)
(* the same characters, so that concatenation, splitting and searching are *)
(* computed as the code computes them.                                     *)
(***************************************************************************)
EXTENDS Integers, Sequences, FiniteSets, TLC

VARIABLES
  variant,     \* 1 or 2: which variant of the generator is running
  cache,       \* the ./cache directory: file name -> file text
  calls,       \* the getJson calls made so far, one record per call
  options,     \* IGenerateApisOptions of the run
  pc,          \* position of generateApis / of the renderer harness
  schemaApi,   \* the decoded schema index
  idx,         \* index of the resource of schemaApi.apis being processed
  sub,         \* how many interface files of that resource are written
  err,         \* what generateApis threw, "" while it has thrown nothing
  apis,        \* the apis array of generateApis
  files,       \* the destination tree: file name -> content
  writes,      \* the writeFile calls on the destination tree, in order
  pending,     \* the operations generateApis has called and that have not settled
  input,       \* the renderer harness' argument (model, operation, parameter)
  out          \* the renderer harness' last result

vars == <<variant, cache, calls, options, pc, schemaApi, idx, sub, err, apis, files,
          writes, pending, input, out>>

(***************************************************************************)
(* Strings                                                                 *)
(***************************************************************************)

\* s.charAt(i - 1), "" past the end
charAt(s, i) ==
  IF i >= 1 /\ i <= Len(s) THEN SubSeq(s, i, i) ELSE ""

\* s.substr(i - 1)
substr(s, i) ==
  IF i > Len(s) THEN "" ELSE SubSeq(s, i, Len(s))

\* whether t occurs in s at position i
startsWithAt(s, t, i) ==
  /\ i >= 1
  /\ i + Len(t) - 1 <= Len(s)
  /\ SubSeq(s, i, i + Len(t) - 1) = t

\* s.includes(t)
includes(s, t) ==
  \E i \in 1..(Len(s) + 1) : startsWithAt(s, t, i)

RECURSIVE join(_, _)
\* items.join(sep)
join(items, sep) ==
  IF Len(items) = 0 THEN ""
  ELSE IF Len(items) = 1 THEN items[1]
  ELSE items[1] \o sep \o join(Tail(items), sep)

RECURSIVE splitAt(_, _, _)
\* the segments of s from position from on, cut at the given positions
splitAt(s, from, positions) ==
  IF positions = {} THEN <<substr(s, from)>>
  ELSE LET i == CHOOSE p \in positions : \A q \in positions : p <= q
       IN  <<(IF from < i THEN SubSeq(s, from, i - 1) ELSE "")>>
             \o splitAt(s, i + 1, positions \ {i})

\* s.split(sep) for a one-character separator
split(s, sep) == splitAt(s, 1, {i \in 1..Len(s) : charAt(s, i) = sep})

RECURSIVE removeChars(_, _)
\* s.replace(/[chars]+/g, '')
removeChars(s, chars) ==
  IF Len(s) = 0 THEN ""
  ELSE IF charAt(s, 1) \in chars THEN removeChars(substr(s, 2), chars)
  ELSE charAt(s, 1) \o removeChars(substr(s, 2), chars)

LowerCase == <<"a", "b", "c", "d", "e", "f", "g", "h", "i", "j", "k", "l", "m",
               "n", "o", "p", "q", "r", "s", "t", "u", "v", "w", "x", "y", "z">>

UpperCase == <<"A", "B", "C", "D", "E", "F", "G", "H", "I", "J", "K", "L", "M",
               "N", "O", "P", "Q", "R", "S", "T", "U", "V", "W", "X", "Y", "Z">>

Digits == <<"0", "1", "2", "3", "4", "5", "6", "7", "8", "9">>

Range(f) == {f[i] : i \in DOMAIN f}

\* c.toUpperCase() of one character
upperChar(c) ==
  IF c \in Range(LowerCase)
    THEN UpperCase[CHOOSE i \in DOMAIN LowerCase : LowerCase[i] = c]
    ELSE c

\* c.toLowerCase() of one character
lowerChar(c) ==
  IF c \in Range(UpperCase)
    THEN LowerCase[CHOOSE i \in DOMAIN UpperCase : UpperCase[i] = c]
    ELSE c

RECURSIVE toLowerCase(_)
toLowerCase(s) ==
  IF Len(s) = 0 THEN "" ELSE lowerChar(charAt(s, 1)) \o toLowerCase(substr(s, 2))

\* the regular expression classes \w and \S
isWordChar(c) == c \in Range(LowerCase) \cup Range(UpperCase) \cup Range(Digits) \cup {"_"}

isSpace(c) == c \in {" ", "\t", "\n", "\r", "\f"}

(***************************************************************************)
(* JSON values, JSON.stringify(data, null, 2) and JSON.parse               *)
(*                                                                         *)
(* A decoded JSON value is a tagged tree; an object keeps its members in   *)
(* insertion order, as a sequence of <<key, value>> pairs. JUndefined is   *)
(* the value of a declared and unassigned variable ("let data;").          *)
(* Numbers are the integers; strings hold no control characters other than *)
(* the line feed.                                                          *)
(***************************************************************************)

JUndefined == [t |-> "undefined", v |-> 0]

JNull == [t |-> "null", v |-> 0]

JBool(b) == [t |-> "bool", v |-> b]

JNum(n) == [t |-> "num", v |-> n]

JStr(s) == [t |-> "str", v |-> s]

JArr(items) == [t |-> "arr", v |-> items]

JObj(members) == [t |-> "obj", v |-> members]

\* !data
falsy(data) ==
  \/ data.t \in {"undefined", "null"}
  \/ data.t = "bool" /\ ~data.v
  \/ data.t = "num" /\ data.v = 0
  \/ data.t = "str" /\ data.v = ""

RECURSIVE spaces(_)
spaces(n) == IF n = 0 THEN "" ELSE " " \o spaces(n - 1)

RECURSIVE natToString(_)
natToString(n) ==
  IF n < 10 THEN Digits[n + 1] ELSE natToString(n \div 10) \o Digits[(n % 10) + 1]

numToString(n) == IF n < 0 THEN "-" \o natToString(-n) ELSE natToString(n)

RECURSIVE escape(_)
\* the characters of a JSON string literal, between its quotes
escape(s) ==
  IF Len(s) = 0 THEN ""
  ELSE LET c == charAt(s, 1)
           e == IF c = "\"" THEN "\\\""
                ELSE IF c = "\\" THEN "\\\\"
                ELSE IF c = "\n" THEN "\\n"
                ELSE c
       IN  e \o escape(substr(s, 2))

quote(s) == "\"" \o escape(s) \o "\""

RECURSIVE stringifyAt(_, _)
RECURSIVE stringifyItems(_, _)
RECURSIVE stringifyMembers(_, _)
\* JSON.stringify(data, null, 2) of a value nested ind spaces deep
stringifyAt(data, ind) ==
  CASE data.t = "null" -> "null"
    [] data.t = "bool" -> (IF data.v THEN "true" ELSE "false")
    [] data.t = "num" -> numToString(data.v)
    [] data.t = "str" -> quote(data.v)
    [] data.t = "arr" ->
         IF Len(data.v) = 0 THEN "[]"
         ELSE "[\n" \o stringifyItems(data.v, ind + 2) \o "\n" \o spaces(ind) \o "]"
    [] data.t = "obj" ->
         IF Len(data.v) = 0 THEN "{}"
         ELSE "{\n" \o stringifyMembers(data.v, ind + 2) \o "\n" \o spaces(ind) \o "}"

stringifyItems(items, ind) ==
  spaces(ind) \o stringifyAt(items[1], ind)
    \o (IF Len(items) = 1 THEN "" ELSE ",\n" \o stringifyItems(Tail(items), ind))

stringifyMembers(members, ind) ==
  spaces(ind) \o quote(members[1][1]) \o ": " \o stringifyAt(members[1][2], ind)
    \o (IF Len(members) = 1 THEN "" ELSE ",\n" \o stringifyMembers(Tail(members), ind))

stringify(data) == stringifyAt(data, 0)

\* The result of a parsing step: the value read and the position after it.
ParseFail == [ok |-> FALSE, v |-> JUndefined, next |-> 0]

ParseOk(v, next) == [ok |-> TRUE, v |-> v, next |-> next]

RECURSIVE skipWs(_, _)
skipWs(s, i) == IF isSpace(charAt(s, i)) THEN skipWs(s, i + 1) ELSE i

RECURSIVE parseDigits(_, _, _)
\* the digits from position i on, acc being the number read so far
parseDigits(s, i, acc) ==
  IF charAt(s, i) \in Range(Digits)
    THEN parseDigits(s, i + 1,
           acc * 10 + (CHOOSE d \in 0..9 : Digits[d + 1] = charAt(s, i)))
    ELSE ParseOk(JNum(acc), i)

parseNumber(s, i) ==
  IF charAt(s, i) = "-"
    THEN IF charAt(s, i + 1) \in Range(Digits)
           THEN LET r == parseDigits(s, i + 1, 0) IN ParseOk(JNum(-r.v.v), r.next)
           ELSE ParseFail
    ELSE parseDigits(s, i, 0)

RECURSIVE parseChars(_, _, _)
\* the characters of a string literal from position i on, up to its closing quote
parseChars(s, i, acc) ==
  LET c == charAt(s, i) IN
  IF c = "" THEN ParseFail
  ELSE IF c = "\"" THEN ParseOk(JStr(acc), i + 1)
  ELSE IF c = "\\"
    THEN LET d == charAt(s, i + 1) IN
         IF d \in {"\"", "\\"} THEN parseChars(s, i + 2, acc \o d)
         ELSE IF d = "n" THEN parseChars(s, i + 2, acc \o "\n")
         ELSE ParseFail
  ELSE parseChars(s, i + 1, acc \o c)

RECURSIVE parseValue(_, _)
RECURSIVE parseItems(_, _, _)
RECURSIVE parseMembers(_, _, _)
\* object members replace an earlier member of the same key, in its place
setMember(members, key, value) ==
  IF \E k \in DOMAIN members : members[k][1] = key
    THEN [k \in DOMAIN members |->
            IF members[k][1] = key THEN <<key, value>> ELSE members[k]]
    ELSE Append(members, <<key, value>>)

parseValue(s, i0) ==
  LET i == skipWs(s, i0)
      c == charAt(s, i)
  IN  IF startsWithAt(s, "null", i) THEN ParseOk(JNull, i + 4)
      ELSE IF startsWithAt(s, "true", i) THEN ParseOk(JBool(TRUE), i + 4)
      ELSE IF startsWithAt(s, "false", i) THEN ParseOk(JBool(FALSE), i + 5)
      ELSE IF c = "\"" THEN parseChars(s, i + 1, "")
      ELSE IF c = "-" \/ c \in Range(Digits) THEN parseNumber(s, i)
      ELSE IF c = "["
        THEN IF charAt(s, skipWs(s, i + 1)) = "]"
               THEN ParseOk(JArr(<<>>), skipWs(s, i + 1) + 1)
               ELSE parseItems(s, i + 1, <<>>)
      ELSE IF c = "{"
        THEN IF charAt(s, skipWs(s, i + 1)) = "}"
               THEN ParseOk(JObj(<<>>), skipWs(s, i + 1) + 1)
               ELSE parseMembers(s, i + 1, <<>>)
      ELSE ParseFail

parseItems(s, i, acc) ==
  LET r == parseValue(s, i) IN
  IF ~r.ok THEN ParseFail
  ELSE LET j == skipWs(s, r.next) IN
       IF charAt(s, j) = "," THEN parseItems(s, j + 1, Append(acc, r.v))
       ELSE IF charAt(s, j) = "]" THEN ParseOk(JArr(Append(acc, r.v)), j + 1)
       ELSE ParseFail

parseMembers(s, i0, acc) ==
  LET i == skipWs(s, i0) IN
  IF charAt(s, i) # "\"" THEN ParseFail
  ELSE LET k == parseChars(s, i + 1, "") IN
       IF ~k.ok THEN ParseFail
       ELSE LET c == skipWs(s, k.next) IN
            IF charAt(s, c) # ":" THEN ParseFail
            ELSE LET r == parseValue(s, c + 1) IN
                 IF ~r.ok THEN ParseFail
                 ELSE LET j == skipWs(s, r.next)
                          m == setMember(acc, k.v.v, r.v)
                      IN  IF charAt(s, j) = "," THEN parseMembers(s, j + 1, m)
                          ELSE IF charAt(s, j) = "}" THEN ParseOk(JObj(m), j + 1)
                          ELSE ParseFail

\* JSON.parse(text): ok is FALSE where JSON.parse throws a SyntaxError
parse(text) ==
  LET r == parseValue(text, 1) IN
  IF r.ok /\ skipWs(text, r.next) = Len(text) + 1 THEN r ELSE ParseFail


(***************************************************************************)
(* The schema loader: getJson                                              *)
(*                                                                         *)
(* The cache directory is a function from file names to file texts. The    *)
(* network's answer to fetch(path) is an input of each call: a JSON        *)
(* document, a rejected fetch, or a body res.json() cannot parse.          *)
(* URLs hold at least one character that the cache key keeps.              *)
(***************************************************************************)

\* the character class of path.replace(/[:/.\-?={}]+/g, '')
StrippedChars == {":", "/", ".", "-", "?", "=", "{", "}"}

cachePath == "./cache"

\* `${cachePath}/${path.replace(/[:/.\-?={}]+/g, '')}`
cacheFilename(path) == cachePath \o "/" \o removeChars(path, StrippedChars)

\* fs.promises.writeFile(filename, text): creates or overwrites
writeFile(fs, filename, text) ==
  [f \in DOMAIN fs \cup {filename} |-> IF f = filename THEN text ELSE fs[f]]

Json(doc) == [kind |-> "json", doc |-> doc]

NetworkError == [kind |-> "networkError", doc |-> JUndefined]

MalformedJson == [kind |-> "malformedJson", doc |-> JUndefined]

\* What a getJson call did: whether the cache file existed on entry, whether
\* fetch was called, whether the cache file was written, whether the call
\* returned (ok) or threw, the value returned and the cache directory after it.
Outcome(path, exists, fetched, wrote, ok, data, fs) ==
  [path |-> path, exists |-> exists, fetched |-> fetched, wrote |-> wrote,
   ok |-> ok, data |-> data, cache |-> fs]

\* lines 110-118 and 557-567: if (!data) { fetch; res.json(); writeFile } return data
fetchIfNoData(path, fs, exists, data, resp) ==
  IF falsy(data)
    THEN IF resp.kind = "json"
           THEN Outcome(path, exists, TRUE, TRUE, TRUE, resp.doc,
                        writeFile(fs, cacheFilename(path), stringify(resp.doc)))
           ELSE Outcome(path, exists, TRUE, FALSE, FALSE, JUndefined, fs)
    ELSE Outcome(path, exists, FALSE, FALSE, TRUE, data, fs)

\* first variant: a cache file that does not parse throws out of getJson
getJson(path, fs, resp) ==
  LET filename == cacheFilename(path)
      exists == filename \in DOMAIN fs
  IN  IF exists
        THEN LET r == parse(fs[filename]) IN
             IF r.ok THEN fetchIfNoData(path, fs, exists, r.v, resp)
             ELSE Outcome(path, exists, FALSE, FALSE, FALSE, JUndefined, fs)
        ELSE fetchIfNoData(path, fs, exists, JUndefined, resp)

\* second variant: access, readFile and JSON.parse share one try block, and
\* whatever they throw is logged and leaves data undefined
getJson_v2(path, fs, resp) ==
  LET filename == cacheFilename(path)
      exists == filename \in DOMAIN fs
      r == IF exists THEN parse(fs[filename]) ELSE ParseFail
  IN  fetchIfNoData(path, fs, exists, IF r.ok THEN r.v ELSE JUndefined, resp)

getJsonOf(v, path, fs, resp) ==
  IF v = 1 THEN getJson(path, fs, resp) ELSE getJson_v2(path, fs, resp)

\* the record kept of a call
CallRecord(r) ==
  [path |-> r.path, exists |-> r.exists, fetched |-> r.fetched, wrote |-> r.wrote,
   ok |-> r.ok, data |-> r.data]

(***************************************************************************)
(* SpecCache: any sequence of getJson calls, within one run or over        *)
(* several, on a cache directory that starts empty.                        *)
(***************************************************************************)

MaxCalls == 3

Urls == {"http://x/a.b", "http://x/ab", "http://x/c"}

Docs == {JNull, JBool(FALSE), JNum(0), JStr(""),
         JArr(<<>>), JObj(<< <<"apis", JArr(<<JNum(1), JStr("a")>>)>> >>)}

Responses == {Json(d) : d \in Docs} \cup {NetworkError, MalformedJson}

Idle == [kind |-> "none"]

InitCache ==
  /\ variant \in {1, 2}
  /\ cache = <<>>
  /\ calls = <<>>
  /\ options = Idle
  /\ pc = "getJson"
  /\ schemaApi = JUndefined
  /\ idx = 0
  /\ sub = 0
  /\ err = ""
  /\ apis = <<>>
  /\ files = <<>>
  /\ writes = <<>>
  /\ pending = {}
  /\ input = Idle
  /\ out = ""

GetJsonCall ==
  /\ variant = 1
  /\ Len(calls) < MaxCalls
  /\ \E path \in Urls, resp \in Responses :
       \E r \in {getJson(path, cache, resp)} :
       /\ cache' = r.cache
       /\ calls' = Append(calls, CallRecord(r))
  /\ UNCHANGED <<variant, options, pc, schemaApi, idx, sub, err, apis, files, writes,
               pending, input, out>>

GetJsonCall_v2 ==
  /\ variant = 2
  /\ Len(calls) < MaxCalls
  /\ \E path \in Urls, resp \in Responses :
       \E r \in {getJson_v2(path, cache, resp)} :
       /\ cache' = r.cache
       /\ calls' = Append(calls, CallRecord(r))
  /\ UNCHANGED <<variant, options, pc, schemaApi, idx, sub, err, apis, files, writes,
               pending, input, out>>

NextCache == GetJsonCall \/ GetJsonCall_v2

SpecCache == InitCache /\ [][NextCache]_vars


(***************************************************************************)
(* Name mapping                                                            *)
(***************************************************************************)

RECURSIVE nonSpaceEnd(_, _)
\* the last position of the run of non-space characters that starts at i
nonSpaceEnd(s, i) ==
  IF i + 1 <= Len(s) /\ ~isSpace(charAt(s, i + 1)) THEN nonSpaceEnd(s, i + 1) ELSE i

RECURSIVE toTitleCaseFrom(_, _)
toTitleCaseFrom(s, i) ==
  IF i > Len(s) THEN ""
  ELSE IF isWordChar(charAt(s, i))
    THEN LET j == nonSpaceEnd(s, i) IN
         upperChar(charAt(s, i)) \o toLowerCase(SubSeq(s, i + 1, j))
           \o toTitleCaseFrom(s, j + 1)
  ELSE charAt(s, i) \o toTitleCaseFrom(s, i + 1)

\* str.replace(/\w\S*/g, txt => txt.charAt(0).toUpperCase() + txt.substr(1).toLowerCase())
toTitleCase(str) == toTitleCaseFrom(str, 1)

\* str.charAt(0).toLowerCase() + str.substr(1)
unTitleCase(str) == lowerChar(charAt(str, 1)) \o substr(str, 2)

\* modelId ? `I${modelId}` : 'unknown'   (an absent identifier is "")
getTsInterfaceName(modelId) ==
  IF modelId # "" THEN "I" \o modelId ELSE "unknown"

\* type || 'unknown' after the three primitive cases   (an absent type is "")
mapType(type) ==
  CASE type = "integer" -> "number"
    [] type = "number" -> "number"
    [] type = "string" -> "string"
    [] OTHER -> IF type # "" THEN type ELSE "unknown"

(***************************************************************************)
(* Decoded documents, as generateApis reads them                           *)
(***************************************************************************)

hasMember(obj, key) ==
  obj.t = "obj" /\ \E k \in DOMAIN obj.v : obj.v[k][1] = key

\* obj[key], undefined when obj has no such member
get(obj, key) ==
  IF hasMember(obj, key)
    THEN obj.v[CHOOSE k \in DOMAIN obj.v : obj.v[k][1] = key][2]
    ELSE JUndefined

\* Object.values(obj)
values(obj) == [k \in DOMAIN obj.v |-> obj.v[k][2]]

RECURSIVE spread(_, _)
\* the members of { ...a, ...b }
spread(a, b) ==
  IF Len(b) = 0 THEN a ELSE spread(setMember(a, b[1][1], b[1][2]), Tail(b))

RECURSIVE flat(_)
\* lists.flat()
flat(lists) == IF Len(lists) = 0 THEN <<>> ELSE lists[1] \o flat(Tail(lists))

RECURSIVE filterSegments(_, _)
\* .filter(s => s && s !== api.apiVersion && s[0] !== '{')
filterSegments(segs, apiVersion) ==
  IF Len(segs) = 0 THEN <<>>
  ELSE LET seg == segs[1]
           rest == filterSegments(Tail(segs), apiVersion)
       IN  IF seg # "" /\ seg # apiVersion /\ charAt(seg, 1) # "{"
             THEN <<seg>> \o rest
             ELSE rest

getApiName(api) ==
  LET segs == filterSegments(split(get(api, "resourcePath").v, "/"),
                             get(api, "apiVersion").v)
  IN  join([k \in DOMAIN segs |-> toTitleCase(segs[k])], "")

\* the operations of a resource, in the order of its operation groups
operationsOf(api) ==
  flat([k \in DOMAIN get(api, "apis").v |->
          get(get(api, "apis").v[k], "operations").v])

getTsOperationOptionsInterfaceName(nickname) == "I" \o nickname \o "Options"


(***************************************************************************)
(* generateApis                                                            *)
(*                                                                         *)
(* Each awaited operation is one step: pc names the operation being        *)
(* awaited, and the step that completes it runs the code up to the next    *)
(* await. The content of a generated file is kept as the renderer call     *)
(* that produced it (renderer, declaration name, argument). A filesystem   *)
(* failure of mkdir, copyFile or writeFile is not modelled.                *)
(***************************************************************************)

Content(fn, name, arg) == [fn |-> fn, name |-> name, arg |-> arg]

\* `${options.dest}/${name}.ts`
destFile(name) == options.dest \o "/" \o name \o ".ts"

\* `${options.dest}/interfaces/${name}.ts`
interfaceFile(name) == options.dest \o "/interfaces/" \o name \o ".ts"

isObject(doc) == doc.t = "obj"

\* lines 500-512: the interface files of one resource, models first
interfaceFiles(api) ==
  LET models == values(get(api, "models"))
      operations == operationsOf(api)
  IN  [k \in DOMAIN models |->
         LET name == getTsInterfaceName(get(models[k], "id").v) IN
         [file |-> interfaceFile(name),
          data |-> Content("getTsInterface", name, models[k])]]
      \o
      [k \in DOMAIN operations |->
         LET name == getTsOperationOptionsInterfaceName(get(operations[k], "nickname").v) IN
         [file |-> interfaceFile(name),
          data |-> Content("getTsOperationOptionsInterface", name, operations[k])]]

\* mergeApi with the model mappings spread in the other order
mergeApi_firstWins(acc, api) ==
  JObj(setMember(
         setMember(acc.v, "apis", JArr(get(acc, "apis").v \o get(api, "apis").v)),
         "models", JObj(spread(get(api, "models").v, get(acc, "models").v))))

\* the callback of apis.reduce: { ...acc, apis: [...acc.apis, ...api.apis],
\* models: { ...acc.models, ...api.models } }
mergeApi(acc, api) ==
  JObj(setMember(
         setMember(acc.v, "apis", JArr(get(acc, "apis").v \o get(api, "apis").v)),
         "models", JObj(spread(get(acc, "models").v, get(api, "models").v))))

RECURSIVE reduceFrom(_, _, _)
reduceFrom(acc, list, i) ==
  IF i > Len(list) THEN [ok |-> TRUE, v |-> acc]
  ELSE IF isObject(acc) /\ isObject(list[i])
    THEN reduceFrom(mergeApi(acc, list[i]), list, i + 1)
  ELSE [ok |-> FALSE, v |-> JUndefined]

\* apis.reduce(callback) with no initial value: it throws a TypeError on an
\* empty array, and the callback throws on a resource that is no object
reduceApis(list) ==
  IF Len(list) = 0 THEN [ok |-> FALSE, v |-> JUndefined]
  ELSE reduceFrom(list[1], list, 2)

At(p, i, k, e) == [pc |-> p, idx |-> i, sub |-> k, err |-> e]

\* lines 516-532, up to the await of the grouped class file's writeFile
afterLoop(i, list) ==
  IF options.groupClass # ""
    THEN IF reduceApis(list).ok /\ isObject(reduceApis(list).v)
           THEN At("writeGroup", i, 0, "")
           ELSE At("failed", i, 0, "TypeError")
    ELSE At("done", i, 0, "")

\* afterInterfaces with the loop left after its first resource
afterInterfaces_early(i, list) ==
  afterLoop(i + 1, list)

\* the end of the loop body for resource i
afterInterfaces(i, list) ==
  IF i < Len(get(schemaApi, "apis").v)
    THEN At("getResource", i + 1, 0, "")
    ELSE afterLoop(i + 1, list)

\* lines 499-513, up to the first interface file's writeFile
afterClass(i, list, api) ==
  IF options.splitInterfaces
    THEN IF ~isObject(api) THEN At("failed", i, 0, "TypeError")
         ELSE IF Len(interfaceFiles(api)) > 0 THEN At("writeInterface", i, 0, "")
         ELSE afterInterfaces(i, list)
    ELSE afterInterfaces(i, list)

\* afterFetch without the test of options.groupClass
afterFetch_always(i, list, api) ==
  IF isObject(api) THEN At("writeClass", i, 0, "")
  ELSE At("failed", i, 0, "TypeError")

\* lines 491-497, up to the class file's writeFile
afterFetch(i, list, api) ==
  IF options.groupClass = ""
    THEN IF isObject(api) THEN At("writeClass", i, 0, "")
         ELSE At("failed", i, 0, "TypeError")
    ELSE afterClass(i, list, api)

\* resourceFetched with the error caught and the resource skipped
resourceFetched_swallow(i, list, r) ==
  IF r.ok THEN afterFetch(i, Append(list, r.data), r.data)
  ELSE afterInterfaces(i, list)

\* what getJson's return or throw makes of the loop for resource i
resourceFetched(i, list, r) ==
  IF r.ok THEN afterFetch(i, Append(list, r.data), r.data)
  ELSE At("failed", i, 0, "fetch")

Goto(at) ==
  /\ pc' = at.pc
  /\ idx' = at.idx
  /\ sub' = at.sub
  /\ err' = at.err

\* the record kept of a write on the destination tree, made for resource i
\* (0: for no resource)
WriteLog(i, kind, file, data) ==
  [resource |-> i, kind |-> kind, file |-> file, data |-> data]

\* the operation that generateApis calls and awaits at position p: a getJson
\* call or a write on the destination tree, for resource i (0: for no resource)
operationAt(p, i, k) ==
  [op |-> IF p \in {"getIndex", "getResource"} THEN "fetch" ELSE "write",
   at |-> p,
   resource |-> IF p \in {"getResource", "writeClass", "writeInterface"} THEN i ELSE 0,
   sub |-> k]

\* the positions of generateApis that are an await of an operation
Awaits == {"start", "getIndex", "getResource", "writeClass", "writeInterface", "writeGroup"}

\* `await operation()`, first half: the operation is called and generateApis is
\* suspended on its promise
Call ==
  /\ pc \in Awaits
  /\ operationAt(pc, idx, sub) \notin pending
  /\ pending' = pending \cup {operationAt(pc, idx, sub)}
  /\ UNCHANGED <<variant, cache, calls, options, pc, schemaApi, idx, sub, err, apis,
                 files, writes, input, out>>

\* `await operation()`, second half: the awaited operation settles and
\* generateApis resumes
Settle ==
  /\ operationAt(pc, idx, sub) \in pending
  /\ pending' = pending \ {operationAt(pc, idx, sub)}

\* lines 474-480
Prepare ==
  /\ pc = "start"
  /\ Settle
  /\ files' = writeFile(files, options.dest \o "/Api.ts", Content("template", "Api", JNull))
  /\ writes' = Append(writes, WriteLog(0, "template", options.dest \o "/Api.ts",
                                      Content("template", "Api", JNull)))
  /\ pc' = "getIndex"
  /\ UNCHANGED <<variant, cache, calls, options, schemaApi, idx, sub, err, apis, input, out>>


(***************************************************************************)
(* The documents the network serves to a run                               *)
(***************************************************************************)

MaxResources == 2

RootUrl == "http://x/api-docs"

IndexPaths == {"/pets.json", "/store.json"}

SeqsUpTo(S, n) == UNION {[1..k -> S] : k \in 0..n}

Property(type, ref) ==
  JObj(<< <<"type", JStr(type)>>, <<"$ref", JStr(ref)>> >>)

Model(id, required, properties) ==
  JObj(<< <<"id", JStr(id)>>,
          <<"required", JArr([k \in DOMAIN required |-> JStr(required[k])])>>,
          <<"properties", JObj(properties)>> >>)

Operation(method, nickname, type) ==
  JObj(<< <<"method", JStr(method)>>, <<"nickname", JStr(nickname)>>,
          <<"summary", JStr("")>>, <<"type", JStr(type)>>,
          <<"parameters", JArr(<<>>)>> >>)

Api(resourcePath, models, groups) ==
  JObj(<< <<"apiVersion", JStr("v1")>>, <<"basePath", JStr("http://x/v1")>>,
          <<"resourcePath", JStr(resourcePath)>>,
          <<"models", JObj(models)>>, <<"apis", JArr(groups)>> >>)

Group(path, operations) ==
  JObj(<< <<"path", JStr(path)>>, <<"operations", JArr(operations)>> >>)

PetsApi ==
  Api("/v1/pets",
      << <<"Pet", Model("Pet", <<"id">>, << <<"id", Property("integer", "")>> >>)>>,
         <<"Tag", Model("Tag", <<>>, << <<"name", Property("string", "")>> >>)>> >>,
      << Group("/pets/{id}", <<Operation("GET", "getPet", "Pet")>>),
         Group("/pets", <<Operation("POST", "addPet", "Pet")>>) >>)

StoreApi ==
  Api("/v1/store/{storeId}/orders",
      << <<"Order", Model("Order", <<>>, << <<"pet", Property("", "Pet")>> >>)>>,
         <<"Pet", Model("Pet", <<>>, << <<"name", Property("string", "")>> >>)>> >>,
      << Group("/orders", <<Operation("GET", "getOrder", "Order")>>) >>)

\* a resource of the same name as PetsApi, with no model and no operation
BareApi == Api("/v1/pets", <<>>, <<>>)

IndexDocs ==
  {JObj(<< <<"apiVersion", JStr("v1")>>, <<"basePath", JStr("http://x")>>,
           <<"apis", JArr([k \in DOMAIN paths |->
                             JObj(<< <<"path", JStr(paths[k])>>,
                                     <<"description", JStr("")>> >>)])>> >>) :
     paths \in SeqsUpTo(IndexPaths, MaxResources)}

ResourceDocs == {PetsApi, StoreApi, BareApi}

IndexResponses == {Json(d) : d \in IndexDocs \cup {JNull}} \cup {NetworkError, MalformedJson}

ResourceResponses ==
  {Json(d) : d \in ResourceDocs \cup {JNull}} \cup {NetworkError, MalformedJson}

\* line 482, and the entry of the loop of line 486
FetchIndex ==
  /\ pc = "getIndex"
  /\ Settle
  /\ \E resp \in IndexResponses :
       \E r \in {getJsonOf(variant, options.url, cache, resp)} :
       LET entries == get(r.data, "apis")
       IN  /\ cache' = r.cache
           /\ calls' = Append(calls, CallRecord(r))
           /\ schemaApi' = r.data
           /\ Goto(IF ~r.ok THEN At("failed", 0, 0, "fetch")
                   ELSE IF ~isObject(r.data) \/ entries.t # "arr"
                     THEN At("failed", 0, 0, "TypeError")
                   ELSE IF Len(entries.v) > 0 THEN At("getResource", 1, 0, "")
                   ELSE afterLoop(1, <<>>))
  /\ UNCHANGED <<variant, options, apis, files, writes, input, out>>

\* lines 489-491, then the loop body up to its first await
FetchResource ==
  /\ pc = "getResource"
  /\ Settle
  /\ \E resp \in ResourceResponses :
       \E r \in {getJsonOf(variant,
                           get(schemaApi, "basePath").v
                             \o get(get(schemaApi, "apis").v[idx], "path").v,
                           cache, resp)} :
           /\ cache' = r.cache
           /\ calls' = Append(calls, CallRecord(r))
           /\ apis' = IF r.ok THEN Append(apis, r.data) ELSE apis
           /\ Goto(resourceFetched(idx, apis, r))
  /\ UNCHANGED <<variant, options, schemaApi, files, writes, input, out>>

\* line 496
WriteClass ==
  /\ pc = "writeClass"
  /\ Settle
  /\ LET api == apis[idx]
         file == destFile(getApiName(api))
     IN  /\ files' = writeFile(files, file, Content("getTsApi", getApiName(api), api))
         /\ writes' = Append(writes, WriteLog(idx, "class", file,
                                               Content("getTsApi", getApiName(api), api)))
         /\ Goto(afterClass(idx, apis, api))
  /\ UNCHANGED <<variant, cache, calls, options, schemaApi, apis, input, out>>

\* lines 503 and 510: one interface file of the resource
WriteInterface ==
  /\ pc = "writeInterface"
  /\ Settle
  /\ LET todo == interfaceFiles(apis[idx])
         f == todo[sub + 1]
     IN  /\ files' = writeFile(files, f.file, f.data)
         /\ writes' = Append(writes, WriteLog(idx, "interface", f.file, f.data))
         /\ Goto(IF sub + 1 < Len(todo) THEN At("writeInterface", idx, sub + 1, "")
                 ELSE afterInterfaces(idx, apis))
  /\ UNCHANGED <<variant, cache, calls, options, schemaApi, apis, input, out>>

\* lines 529-531
WriteGroup ==
  /\ pc = "writeGroup"
  /\ Settle
  /\ LET api == reduceApis(apis).v
         file == destFile(options.groupClass)
     IN  /\ files' = writeFile(files, file, Content("getTsApi", options.groupClass, api))
         /\ writes' = Append(writes, WriteLog(0, "group", file,
                                               Content("getTsApi", options.groupClass, api)))
         /\ Goto(At("done", idx, 0, ""))
  /\ UNCHANGED <<variant, cache, calls, options, schemaApi, apis, input, out>>

Init ==
  /\ variant \in {1, 2}
  /\ cache = <<>>
  /\ calls = <<>>
  /\ options \in [url : {RootUrl}, dest : {"./generated"},
                  splitInterfaces : BOOLEAN, groupClass : {"", "Shop"}]
  /\ pc = "start"
  /\ schemaApi = JUndefined
  /\ idx = 0
  /\ sub = 0
  /\ err = ""
  /\ apis = <<>>
  /\ files = <<>>
  /\ writes = <<>>
  /\ pending = {}
  /\ input = Idle
  /\ out = ""

Next == Call \/ Prepare \/ FetchIndex \/ FetchResource \/ WriteClass \/ WriteInterface \/ WriteGroup

Spec == Init /\ [][Next]_vars


(***************************************************************************)
(* Type mapping and declaration rendering                                  *)
(*                                                                         *)
(* The renderers' arguments are records of the interfaces of               *)
(* swagger.interfaces.ts. An optional string field that is absent is "":   *)
(* the code only tests such a field for truth. An optional field of        *)
(* another type (enum, items) is None or Some(value).                      *)
(***************************************************************************)

None == <<>>

Some(x) == <<x>>

IModelProperty(type, description, ref, items) ==
  [type |-> type, description |-> description, ref |-> ref, items |-> items]

IModel(id, required, properties) ==
  [id |-> id, required |-> required, properties |-> properties]

IParameter(name, paramType, required, type, description, enum) ==
  [name |-> name, paramType |-> paramType, required |-> required, type |-> type,
   description |-> description, enum |-> enum]

IOperation(method, nickname, summary, type, parameters) ==
  [method |-> method, nickname |-> nickname, summary |-> summary, type |-> type,
   parameters |-> parameters]

\* strs.join('')
concat(strs) == join(strs, "")

RECURSIVE uniqFrom(_, _)
uniqFrom(items, seen) ==
  IF Len(items) = 0 THEN seen
  ELSE IF \E k \in DOMAIN seen : seen[k] = items[1] THEN uniqFrom(Tail(items), seen)
  ELSE uniqFrom(Tail(items), Append(seen, items[1]))

\* Array.from(new Set(items))
uniq(items) == uniqFrom(items, <<>>)

RECURSIVE padEnd(_, _)
\* s.padEnd(n)
padEnd(s, n) == IF Len(s) >= n THEN s ELSE padEnd(s \o " ", n)

\* xs.filter(x => x.paramType === paramType)
byParamType(parameters, paramType) ==
  SelectSeq(parameters, LAMBDA o : o.paramType = paramType)

\* xs.some(o => o.required)
someRequired(parameters) == \E k \in DOMAIN parameters : parameters[k].required

\* enum.map(s => `'${s}'`).join(sep)
literals(enum, sep) == join([k \in DOMAIN enum |-> "'" \o enum[k] \o "'"], sep)

RECURSIVE getTsPropertyType(_)
getTsPropertyType(property) ==
  IF property.type = "array" /\ property.items # None
    THEN getTsPropertyType(property.items[1]) \o "[]"
  ELSE IF property.ref # "" THEN getTsInterfaceName(property.ref)
  ELSE mapType(property.type)

getTsParameterType(property) ==
  IF property.enum # None THEN literals(property.enum[1], " | ")
  ELSE IF property.paramType = "body" THEN getTsInterfaceName(property.type)
  ELSE mapType(property.type)

\* lines 178-184: the names imported by a model declaration
importedInterfaces(model) ==
  LET props == [k \in DOMAIN model.properties |-> model.properties[k][2]]
      refs == [k \in DOMAIN props |-> props[k].ref]
              \o [k \in DOMAIN props |->
                    IF props[k].items # None THEN props[k].items[1].ref ELSE ""]
      kept == SelectSeq(refs, LAMBDA r : r # "")
  IN  [k \in DOMAIN kept |-> getTsInterfaceName(kept[k])]

\* lines 177-191 and 614-628
interfaceImports(model, opts) ==
  IF opts.splitInterfaces
    THEN LET names == importedInterfaces(model)
             text == join([k \in DOMAIN names |->
                             "import { " \o names[k] \o " } from \"./" \o names[k] \o "\";"],
                          "\n")
         IN  IF text # "" THEN text \o "\n\n" ELSE text
    ELSE ""

\* requiredMark with the two outcomes exchanged
requiredMark_inverted(model, name) ==
  IF \E k \in DOMAIN model.required : model.required[k] = name THEN "?" ELSE ""

\* model.required.includes(name) ? '' : '?'
requiredMark(model, name) ==
  IF \E k \in DOMAIN model.required : model.required[k] = name THEN "" ELSE "?"

getTsInterface(model, opts) ==
  interfaceImports(model, opts)
    \o "export interface " \o getTsInterfaceName(model.id) \o " {"
    \o concat([k \in DOMAIN model.properties |->
         LET name == model.properties[k][1]
             property == model.properties[k][2]
         IN  "\n"
             \o (IF property.description # "" THEN "  // " \o property.description ELSE "")
             \o "\n  " \o name \o requiredMark(model, name) \o ": "
             \o getTsPropertyType(property) \o ";"])
    \o "\n}"

getTsInterface_v2(model, opts) ==
  interfaceImports(model, opts)
    \o "export interface " \o getTsInterfaceName(model.id) \o " {"
    \o concat([k \in DOMAIN model.properties |->
         LET name == model.properties[k][1]
             property == model.properties[k][2]
         IN  "\n"
             \o (IF property.description # ""
                   THEN "  // " \o property.description \o "\n" ELSE "")
             \o "  " \o name \o requiredMark(model, name) \o ": "
             \o getTsPropertyType(property) \o ";\n"])
    \o "}\n"

getTsParam(parameter) ==
  (IF parameter.description # "" THEN "\n    // " \o parameter.description ELSE "")
    \o "\n    " \o parameter.name \o (IF parameter.required THEN "" ELSE "?") \o ": "
    \o getTsParameterType(parameter) \o ";"

\* lines 258-264 and 732-738: the body parameters' interface names
bodyInterfaces(operation) ==
  LET body == byParamType(operation.parameters, "body") IN
  uniq([k \in DOMAIN body |-> getTsInterfaceName(body[k].type)])

\* the sub-shape field of one parameter group, when the group rendered to text
optionsField(field, text, required, tail) ==
  IF text # ""
    THEN "\n  " \o field \o (IF required THEN "" ELSE "?") \o ": {" \o text \o tail
    ELSE ""

getTsOperationOptionsInterface(operation, opts) ==
  LET group(paramType) ==
        LET members == byParamType(operation.parameters, paramType) IN
        concat([k \in DOMAIN members |-> getTsParam(members[k])])
      required(paramType) == someRequired(byParamType(operation.parameters, paramType))
      names == bodyInterfaces(operation)
  IN  (IF opts.splitInterfaces
         THEN "import { IOperationOptions } from \"../Api\";"
              \o join([k \in DOMAIN names |->
                         "\nimport { " \o names[k] \o " } from \"./" \o names[k] \o "\";"],
                      ",")
              \o "\n\n"
         ELSE "")
      \o "export interface " \o getTsOperationOptionsInterfaceName(operation.nickname)
      \o " extends IOperationOptions {"
      \o optionsField("body", group("body"), required("body"), "\n  };\n")
      \o optionsField("query", group("query"), required("query"), "\n  };")
      \o optionsField("params", group("path"), required("path"), "\n  };")
      \o "\n}"

\* lines 667-682: one body parameter of the second variant
bodyParam_v2(param) ==
  "\n"
    \o (IF param.description # "" THEN "    // " \o param.description \o "\n" ELSE "")
    \o "    " \o param.name \o (IF param.required THEN "" ELSE "?") \o ": "
    \o getTsInterfaceName(param.type) \o ";\n"

\* lines 693-699 and 715-721
enumOrMapType_v2(param) ==
  IF param.enum # None THEN literals(param.enum[1], " | ") ELSE mapType(param.type)

\* lines 684-706
queryParam_v2(param) ==
  "\n"
    \o (IF param.description # "" THEN "    // " \o param.description \o "\n" ELSE "")
    \o "    " \o param.name \o (IF param.required THEN "" ELSE "?") \o ": "
    \o enumOrMapType_v2(param) \o ";\n"

\* lines 708-724
pathParam_v2(param) ==
  "\n"
    \o (IF param.description # "" THEN "    // " \o param.description \o "\n" ELSE "")
    \o "    " \o param.name \o ": " \o enumOrMapType_v2(param) \o ";\n"

getTsOperationOptionsInterface_v2(operation, opts) ==
  LET bodyParams == byParamType(operation.parameters, "body")
      queryParams == byParamType(operation.parameters, "query")
      pathParams == byParamType(operation.parameters, "path")
      body == concat([k \in DOMAIN bodyParams |-> bodyParam_v2(bodyParams[k])])
      query == concat([k \in DOMAIN queryParams |-> queryParam_v2(queryParams[k])])
      path == concat([k \in DOMAIN pathParams |-> pathParam_v2(pathParams[k])])
      names == bodyInterfaces(operation)
  IN  (IF opts.splitInterfaces
         THEN "import { IOperationOptions } from \"../Api\";\n"
              \o join([k \in DOMAIN names |->
                         "import { " \o names[k] \o " } from \"./" \o names[k] \o "\";\n"],
                      ",")
              \o "\n"
         ELSE "")
      \o "export interface " \o getTsOperationOptionsInterfaceName(operation.nickname)
      \o " extends IOperationOptions {"
      \o (IF body # ""
            THEN "\n  body" \o (IF someRequired(bodyParams) THEN "" ELSE "?") \o ": {"
                 \o body \o "  };\n"
            ELSE "")
      \o (IF query # ""
            THEN "\n  query" \o (IF someRequired(queryParams) THEN "" ELSE "?") \o ": {"
                 \o query \o "  };\n"
            ELSE "")
      \o (IF path # "" THEN "\n  params: {" \o path \o "  };\n" ELSE "")
      \o "}\n"

getJsDocParamType(parameter) ==
  IF parameter.paramType = "body" THEN "object" ELSE mapType(parameter.type)

getJsDocParam(parameter) ==
  LET t == padEnd(getJsDocParamType(parameter), 7)
      n == (IF parameter.required THEN " " ELSE "[") \o parameter.name
           \o (IF parameter.required THEN "" ELSE "]")
      d == parameter.description
           \o (IF parameter.paramType = "body"
                 THEN getTsInterfaceName(parameter.type) ELSE "")
           \o (IF parameter.enum # None
                 THEN " (" \o literals(parameter.enum[1], "|") \o ")" ELSE "")
  IN  "\n   * @param   " \o t \o " " \o n \o " - " \o d

\* lines 353-358 and 361-388: a line for the options object or one of its groups
docObject(name, required, description) ==
  getJsDocParam(IParameter(name, "", required, "object", description, None))

getJsDocOperation(operation) ==
  LET group(paramType, prefix) ==
        LET members == byParamType(operation.parameters, paramType) IN
        concat([k \in DOMAIN members |->
                  getJsDocParam([members[k] EXCEPT !.name = prefix \o members[k].name])])
      \* .filter(o => o.type === t).some(o => o.required)
      typed(t) == someRequired(SelectSeq(operation.parameters, LAMBDA o : o.type = t))
      body == group("body", "options.body.")
      query == group("query", "options.query.")
      params == group("path", "options.params.")
  IN  "  /**"
      \o "\n   * " \o operation.summary
      \o docObject("options", someRequired(operation.parameters),
                   getTsOperationOptionsInterfaceName(operation.nickname))
      \o (IF body # ""
            THEN docObject("options.body", typed("body"), "body params") \o body ELSE "")
      \o (IF query # ""
            THEN docObject("options.query", typed("query"), "query params") \o query
            ELSE "")
      \o (IF params # ""
            THEN docObject("options.params", typed("path"), "path params") \o params
            ELSE "")
      \o "\n   * @returns Promise <" \o getTsInterfaceName(operation.type) \o ">"
      \o "\n   */"

getTsOperation(operation, url) ==
  getJsDocOperation(operation)
    \o "\n  async " \o unTitleCase(operation.nickname)
    \o "(options" \o (IF someRequired(operation.parameters) THEN "" ELSE "?") \o ": "
    \o getTsOperationOptionsInterfaceName(operation.nickname)
    \o "): Promise<" \o getTsInterfaceName(operation.type) \o "> {"
    \o "\n    return this.requestJson({ method: '" \o operation.method
    \o "', path: '" \o url \o "', ...options });"
    \o "\n  }"

getTsOperation_v2(operation, url) ==
  (IF operation.summary # "" THEN "  // " \o operation.summary \o "\n" ELSE "")
    \o "  async " \o unTitleCase(operation.nickname)
    \o "(options: " \o getTsOperationOptionsInterfaceName(operation.nickname)
    \o "): Promise<" \o getTsInterfaceName(operation.type) \o "> {\n"
    \o "    return this.requestJson({ method: '" \o operation.method
    \o "', path: '" \o url \o "', ...options });\n"
    \o "  }\n"


(***************************************************************************)
(* SpecRender: one renderer applied to one argument drawn from the models, *)
(* operations and parameters below.                                        *)
(***************************************************************************)

MaxProperties == 2

MaxParameters == 2

PropertyNames == <<"id", "name", "tags", "owner">>

PropertyShapes ==
  {IModelProperty("string", "", "", None),
   IModelProperty("integer", "the id", "", None),
   IModelProperty("", "", "Tag", None),
   IModelProperty("array", "", "", Some(IModelProperty("", "", "Tag", None))),
   IModelProperty("array", "its words", "", Some(IModelProperty("string", "", "", None)))}

\* the names of a set of positions, in the order of the positions
RECURSIVE namesOf(_, _)
namesOf(positions, k) ==
  IF k > Len(PropertyNames) THEN <<>>
  ELSE (IF k \in positions THEN <<PropertyNames[k]>> ELSE <<>>) \o namesOf(positions, k + 1)

Models ==
  {IModel("Pet", namesOf(required, 1), [k \in DOMAIN shapes |-> <<PropertyNames[k], shapes[k]>>]) :
     <<shapes, required>> \in
       UNION {[1..n -> PropertyShapes] \X SUBSET (1..n) : n \in 0..MaxProperties}}

ParameterNames == <<"a", "b", "c", "d">>

ParameterShapes ==
  {IParameter("", paramType, required,
              IF enum # None THEN "string" ELSE IF paramType = "body" THEN "Pet" ELSE "integer",
              IF enum # None THEN "sort order" ELSE "",
              enum) :
     paramType \in {"body", "query", "path"}, required \in BOOLEAN,
     enum \in {None, Some(<<"asc", "desc">>)}}

Parameters == {[shape EXCEPT !.name = "a"] : shape \in ParameterShapes}

Operations ==
  {IOperation("GET", "getPet", "Find a pet", "Pet",
              [k \in DOMAIN shapes |-> [shapes[k] EXCEPT !.name = ParameterNames[k]]]) :
     shapes \in SeqsUpTo(ParameterShapes, MaxParameters)}

Arg(kind, value) == [kind |-> kind, value |-> value]

InitRender ==
  /\ variant \in {1, 2}
  /\ cache = <<>>
  /\ calls = <<>>
  /\ options \in [url : {RootUrl}, dest : {"./generated"},
                  splitInterfaces : BOOLEAN, groupClass : {""}]
  /\ pc = "ready"
  /\ schemaApi = JUndefined
  /\ idx = 0
  /\ sub = 0
  /\ err = ""
  /\ apis = <<>>
  /\ files = <<>>
  /\ writes = <<>>
  /\ pending = {}
  /\ \/ \E model \in Models : input = Arg("model", model)
     \/ \E operation \in Operations : input = Arg("operation", operation)
     \/ \E parameter \in Parameters : input = Arg("parameter", parameter)
  /\ out = ""

Rendered(fn, text) ==
  /\ pc' = fn
  /\ out' = text
  /\ UNCHANGED <<variant, cache, calls, options, schemaApi, idx, sub, err, apis, files,
                 writes, pending, input>>

RenderInterface ==
  /\ pc = "ready"
  /\ input.kind = "model"
  /\ Rendered("getTsInterface",
              IF variant = 1 THEN getTsInterface(input.value, options)
              ELSE getTsInterface_v2(input.value, options))

RenderOptionsInterface ==
  /\ pc = "ready"
  /\ input.kind = "operation"
  /\ Rendered("getTsOperationOptionsInterface",
              IF variant = 1 THEN getTsOperationOptionsInterface(input.value, options)
              ELSE getTsOperationOptionsInterface_v2(input.value, options))

RenderOperation ==
  /\ pc = "ready"
  /\ input.kind = "operation"
  /\ Rendered("getTsOperation",
              IF variant = 1 THEN getTsOperation(input.value, "/pets/{id}")
              ELSE getTsOperation_v2(input.value, "/pets/{id}"))

\* the second variant has no getTsParameterType
RenderParameterType ==
  /\ pc = "ready"
  /\ input.kind = "parameter"
  /\ variant = 1
  /\ Rendered("getTsParameterType", getTsParameterType(input.value))

NextRender ==
  RenderInterface \/ RenderOptionsInterface \/ RenderOperation \/ RenderParameterType

SpecRender == InitRender /\ [][NextRender]_vars


(***************************************************************************)
(* Claims about the loader, checked under SpecCache                        *)
(***************************************************************************)

\* C1: when a getJson call misses the cache, fetches the document and writes
\* the cache file, the next getJson call for the same URL issues no fetch and
\* returns the same decoded content.
C1_CacheRoundTrip ==
  \A i \in 1..(Len(calls) - 1) :
    ( /\ calls[i].ok
      /\ ~calls[i].exists
      /\ calls[i].fetched
      /\ calls[i].wrote
      /\ calls[i + 1].path = calls[i].path )
    => ( /\ calls[i + 1].ok
         /\ ~calls[i + 1].fetched
         /\ calls[i + 1].data = calls[i].data )

\* C3: no getJson call changes the content of a cache file that exists, and a
\* call writes a cache file only when no file existed at its cache path.
C3_CacheNeverInvalidated ==
  [][ /\ \A f \in DOMAIN cache : f \in DOMAIN cache' /\ cache'[f] = cache[f]
      /\ \A i \in DOMAIN calls' : calls'[i].wrote => ~calls'[i].exists ]_vars

\* the call before call j that last wrote the cache file of call j's URL
lastWriter(j) ==
  CHOOSE i \in 1..(j - 1) :
    /\ calls[i].wrote
    /\ cacheFilename(calls[i].path) = cacheFilename(calls[j].path)
    /\ \A k \in (i + 1)..(j - 1) :
         ~(calls[k].wrote /\ cacheFilename(calls[k].path) = cacheFilename(calls[j].path))

\* C4: two distinct URLs fetched through getJson have distinct cache keys, and
\* a call answered from the cache returns a document that was cached by a
\* call for the same URL.
C4_OneFilePerUrl ==
  /\ \A i, j \in DOMAIN calls :
       calls[i].path # calls[j].path
         => cacheFilename(calls[i].path) # cacheFilename(calls[j].path)
  /\ \A j \in DOMAIN calls :
       (calls[j].ok /\ ~calls[j].fetched) => calls[lastWriter(j)].path = calls[j].path


(***************************************************************************)
(* Claims about the run, checked under Spec                                *)
(***************************************************************************)

RECURSIVE replay(_, _)
\* the destination tree that the writes of a log leave, made on the tree fs
replay(log, fs) ==
  IF Len(log) = 0 THEN fs
  ELSE replay(Tail(log), writeFile(fs, log[1].file, log[1].data))

\* C2: when the fetch of the k-th resource fails (call k + 1 of the run, the
\* index being call 1), the run has aborted with that error, no class or
\* interface file was written for resource k or a later one, no grouped class
\* file was written, and the destination tree holds what was written before.
C2_FetchFailureAborts ==
  \A k \in 1..(Len(calls) - 1) :
    ~calls[k + 1].ok =>
      /\ pc = "failed" /\ err = "fetch" /\ idx = k
      /\ ~ENABLED Next
      /\ \A j \in DOMAIN writes :
           /\ writes[j].kind # "group"
           /\ writes[j].kind \in {"class", "interface"} => writes[j].resource < k
      /\ files = replay(writes, <<>>)

\* C2's case: the second resource's fetch fails after files of the first were written
C2_Witness ==
  /\ Len(calls) = 3
  /\ ~calls[3].ok
  /\ \E j \in DOMAIN writes : writes[j].kind = "class" /\ writes[j].resource = 1
  /\ \E j \in DOMAIN writes : writes[j].kind = "interface" /\ writes[j].resource = 1

\* a write without its data
Written(i, kind, file) == [resource |-> i, kind |-> kind, file |-> file]

\* the interface files the claim expects for resource i: one per model, then
\* one per operation
C5_Interfaces(i) ==
  LET models == get(apis[i], "models").v
      operations == operationsOf(apis[i])
  IN  [k \in DOMAIN models |->
         Written(i, "interface",
                 "./generated/interfaces/I" \o get(models[k][2], "id").v \o ".ts")]
      \o
      [k \in DOMAIN operations |->
         Written(i, "interface",
                 "./generated/interfaces/I" \o get(operations[k], "nickname").v
                   \o "Options.ts")]

\* the files the claim expects a completed run to write after the template
C5_Expected ==
  flat([i \in DOMAIN apis |->
          (IF options.groupClass = ""
             THEN <<Written(i, "class", "./generated/" \o getApiName(apis[i]) \o ".ts")>>
             ELSE <<>>)
          \o (IF options.splitInterfaces THEN C5_Interfaces(i) ELSE <<>>)])
  \o (IF options.groupClass # ""
        THEN <<Written(0, "group", "./generated/" \o options.groupClass \o ".ts")>>
        ELSE <<>>)

\* C5: the files a completed run writes are fixed by the flags: a class file
\* per fetched resource when groupClass is empty, no class file per resource
\* and one grouped class file after all resources otherwise, and with
\* splitInterfaces one interface file per model and per operation as well.
C5_FilesByFlags ==
  pc = "done" =>
    /\ Len(apis) = Len(get(schemaApi, "apis").v)
    /\ [j \in 1..(Len(writes) - 1) |->
          Written(writes[j + 1].resource, writes[j + 1].kind, writes[j + 1].file)]
         = C5_Expected

\* C5's case: a run of two resources that completes, under each flag
C5_Witness ==
  /\ pc = "done"
  /\ Len(apis) = 2
  /\ options.splitInterfaces
  /\ options.groupClass = ""
  /\ Len(writes) > 6

C5_WitnessGroup ==
  /\ pc = "done"
  /\ Len(apis) = 2
  /\ options.groupClass # ""

\* the combined resource that the grouped class file was rendered from
C6_Merged == writes[Len(writes)].data.arg

\* C6: the combined resource's model for an identifier is the definition of
\* the last resource in list order that defines it, and its operation groups
\* are the concatenation of the resources' operation groups in list order.
C6_GroupMerge ==
  (pc = "done" /\ options.groupClass # "") =>
    /\ \A i \in DOMAIN apis :
         \A k \in DOMAIN get(apis[i], "models").v :
           LET id == get(apis[i], "models").v[k][1] IN
           (\A j \in (i + 1)..Len(apis) : ~hasMember(get(apis[j], "models"), id))
             => get(get(C6_Merged, "models"), id) = get(apis[i], "models").v[k][2]
    /\ \A k \in DOMAIN get(C6_Merged, "models").v :
         \E i \in DOMAIN apis :
           hasMember(get(apis[i], "models"), get(C6_Merged, "models").v[k][1])
    /\ get(C6_Merged, "apis").v = flat([i \in DOMAIN apis |-> get(apis[i], "apis").v])

\* C6's case: two merged resources define the same model identifier differently
C6_Witness ==
  /\ pc = "done"
  /\ options.groupClass # ""
  /\ Len(apis) = 2
  /\ hasMember(get(apis[1], "models"), "Pet")
  /\ hasMember(get(apis[2], "models"), "Pet")
  /\ get(get(apis[1], "models"), "Pet") # get(get(apis[2], "models"), "Pet")
  /\ Len(get(apis[1], "apis").v) > 0
  /\ Len(get(apis[2], "apis").v) > 0

\* the writes made for resource i, in order and without their data
C11_WritesOf(i) ==
  LET made == SelectSeq(writes, LAMBDA w : w.resource = i)
  IN  [k \in DOMAIN made |-> Written(made[k].resource, made[k].kind, made[k].file)]

\* all the writes that the flags ask for resource i
C11_AllWrites(i) ==
  (IF options.groupClass = ""
     THEN <<Written(i, "class", "./generated/" \o getApiName(apis[i]) \o ".ts")>>
     ELSE <<>>)
  \o (IF options.splitInterfaces THEN C5_Interfaces(i) ELSE <<>>)

\* the fetch of resource j has begun: it is in flight or it has completed
C11_FetchBegun(j) ==
  \/ \E o \in pending : o.at = "getResource" /\ o.resource = j
  \/ Len(calls) >= j + 1

\* the write of the grouped class file has begun
C11_GroupBegun ==
  \/ \E o \in pending : o.at = "writeGroup"
  \/ \E k \in DOMAIN writes : writes[k].kind = "group"

\* C11: a run is sequential in index order: at most one fetch or write is in
\* flight at any time; the first fetch is the schema index; when the fetch of
\* resource j begins, the fetch before it and every write of every resource
\* before j have completed; a write for resource i is made after resource i
\* is fetched; and the grouped class file is written only after every
\* resource of the index has been fetched and its files written.
C11_Sequential ==
  /\ Cardinality(pending) <= 1
  /\ Len(calls) >= 1 => calls[1].path = options.url
  /\ \A j \in 1..(Len(calls) + 1) :
       C11_FetchBegun(j) =>
         /\ Len(calls) >= j
         /\ Len(apis) >= j - 1
         /\ \A i \in 1..(j - 1) : C11_WritesOf(i) = C11_AllWrites(i)
  /\ \A o \in pending :
       (o.op = "write" /\ o.resource >= 1) =>
         /\ Len(calls) = o.resource + 1
         /\ calls[o.resource + 1].ok
  /\ \A k \in DOMAIN writes :
       writes[k].resource >= 1 => Len(calls) >= writes[k].resource + 1
  /\ C11_GroupBegun =>
       /\ schemaApi.t = "obj"
       /\ Len(calls) = 1 + Len(get(schemaApi, "apis").v)
       /\ \A k \in DOMAIN calls : calls[k].ok
       /\ \A i \in DOMAIN apis : C11_WritesOf(i) = C11_AllWrites(i)

\* C11's case: the fetch of the second resource is in flight, after the class
\* file and the interface files of the first resource were written
C11_Witness ==
  /\ \E o \in pending : o.at = "getResource" /\ o.resource = 2
  /\ \E k \in DOMAIN writes : writes[k].kind = "class" /\ writes[k].resource = 1
  /\ \E k \in DOMAIN writes : writes[k].kind = "interface" /\ writes[k].resource = 1

\* C11's case for a grouped run: the grouped class file is being written
\* after two resources were fetched
C11_WitnessGroup ==
  /\ \E o \in pending : o.at = "writeGroup"
  /\ Len(apis) = 2


(***************************************************************************)
(* Claims about the renderers, checked under SpecRender                    *)
(***************************************************************************)

\* the sub-shape fields of an options declaration and their parameter groups
SubShapes == {<<"body", "body">>, <<"query", "query">>, <<"params", "path">>}

\* the text that opens a required, and an optional, sub-shape field
RequiredField(field) == "\n  " \o field \o ": {"

OptionalField(field) == "\n  " \o field \o "?: {"

\* what C7 says of the options declaration text of an operation
C7_Holds(operation, text) ==
  \A shape \in SubShapes :
    LET group == byParamType(operation.parameters, shape[2]) IN
    IF group = <<>>
      THEN ~includes(text, RequiredField(shape[1])) /\ ~includes(text, OptionalField(shape[1]))
      ELSE IF someRequired(group)
        THEN includes(text, RequiredField(shape[1])) /\ ~includes(text, OptionalField(shape[1]))
        ELSE includes(text, OptionalField(shape[1])) /\ ~includes(text, RequiredField(shape[1]))

\* C7: in an operation-options declaration, each non-empty parameter group
\* emits its field (body, query, params), required if and only if some
\* parameter of the group is required, and an empty group emits no field.
C7_SubShapeRequired ==
  pc = "getTsOperationOptionsInterface" => C7_Holds(input.value, out)

\* C7 of the first variant alone
C7_FirstVariant ==
  (pc = "getTsOperationOptionsInterface" /\ variant = 1) => C7_Holds(input.value, out)

\* what C8 says of the method text of an operation
C8_Holds(operation, text) ==
  IF someRequired(operation.parameters)
    THEN includes(text, "(options: ") /\ ~includes(text, "(options?: ")
    ELSE includes(text, "(options?: ") /\ ~includes(text, "(options: ")

\* C8: the generated method's options argument is optional if and only if no
\* parameter of the operation is required.
C8_OptionsArgument ==
  pc = "getTsOperation" => C8_Holds(input.value, out)

\* C8 of the first variant alone
C8_FirstVariant ==
  (pc = "getTsOperation" /\ variant = 1) => C8_Holds(input.value, out)

\* the field lines of a declaration: the lines indented by two spaces that
\* are no comment
C9_FieldLines(text) ==
  SelectSeq(split(text, "\n"),
            LAMBDA l : startsWithAt(l, "  ", 1) /\ ~startsWithAt(l, "  //", 1))

\* C9: a model declaration emits every property of the model exactly once, in
\* the mapping's iteration order, marked optional if and only if its name is
\* absent from the model's required list.
C9_ModelFields ==
  pc = "getTsInterface" =>
    LET model == input.value
        lines == C9_FieldLines(out)
    IN  /\ Len(lines) = Len(model.properties)
        /\ \A k \in DOMAIN model.properties :
             LET name == model.properties[k][1] IN
             IF \E r \in DOMAIN model.required : model.required[r] = name
               THEN startsWithAt(lines[k], "  " \o name \o ": ", 1)
               ELSE startsWithAt(lines[k], "  " \o name \o "?: ", 1)

\* C9's case: a declaration of two properties, one required and one not
C9_Witness ==
  /\ pc = "getTsInterface"
  /\ Len(input.value.properties) = 2
  /\ input.value.required = <<"name">>
  /\ input.value.properties[1][2].description # ""

\* the type that the rule of C10 gives a parameter
C10_Type(parameter) ==
  IF parameter.enum # None
    THEN join([k \in DOMAIN parameter.enum[1] |-> "'" \o parameter.enum[1][k] \o "'"], " | ")
  ELSE IF parameter.paramType = "body"
    THEN (IF parameter.type # "" THEN "I" \o parameter.type ELSE "unknown")
  ELSE IF parameter.type \in {"integer", "number"} THEN "number"
  ELSE IF parameter.type = "" THEN "unknown"
  ELSE parameter.type

\* what C10 says of the options declaration text of an operation: each
\* parameter's line gives the type of the rule
C10_Holds(operation, text) ==
  \A k \in DOMAIN operation.parameters :
    LET parameter == operation.parameters[k] IN
    \E mark \in {"", "?"} :
      includes(text, "    " \o parameter.name \o mark \o ": " \o C10_Type(parameter) \o ";")

\* C10: parameterType gives the union of the quoted literals when an
\* enumerated set is present, else typeDeclarationName of the type for a body
\* parameter, else the primitive mapping; and every parameter of an options
\* declaration, of whichever group, is given the type of this rule.
C10_ParameterTypeRule ==
  /\ pc = "getTsParameterType" => out = C10_Type(input.value)
  /\ pc = "getTsOperationOptionsInterface" => C10_Holds(input.value, out)

\* C10 of the first variant alone
C10_FirstVariant ==
  /\ pc = "getTsParameterType" => out = C10_Type(input.value)
  /\ (pc = "getTsOperationOptionsInterface" /\ variant = 1) => C10_Holds(input.value, out)

\* the model identifiers that the properties of a model reference, directly or
\* as the element type of an array property
C12_Referenced(model) ==
  ( {model.properties[k][2].ref : k \in DOMAIN model.properties}
      \cup {model.properties[k][2].items[1].ref :
              k \in {n \in DOMAIN model.properties : model.properties[n][2].items # None}} )
    \ {""}

\* the import line of a model identifier
C12_ImportLine(id) == "import { I" \o id \o " } from \"./I" \o id \o "\";"

\* the non-empty lines of a declaration's text that precede its
\* `export interface` line
C12_Preamble(text) ==
  LET lines == split(text, "\n")
      first == CHOOSE k \in DOMAIN lines :
                 /\ startsWithAt(lines[k], "export interface ", 1)
                 /\ \A n \in 1..(k - 1) : ~startsWithAt(lines[n], "export interface ", 1)
  IN  SelectSeq(SubSeq(lines, 1, first - 1), LAMBDA l : l # "")

\* C12: with splitInterfaces set, the lines before a model declaration are the
\* import lines of the distinct model identifiers that its properties
\* reference, directly or as an array's element type, each exactly once, and
\* no other line.
C12_ImportsOncePerReference ==
  (pc = "getTsInterface" /\ options.splitInterfaces) =>
    LET lines == C12_Preamble(out)
    IN  /\ {lines[k] : k \in DOMAIN lines}
             = {C12_ImportLine(id) : id \in C12_Referenced(input.value)}
        /\ \A k, n \in DOMAIN lines : lines[k] = lines[n] => k = n

\* C12 without "exactly once": every referenced identifier is imported and
\* nothing else is
C12_ImportsCoverReferences ==
  (pc = "getTsInterface" /\ options.splitInterfaces) =>
    LET lines == C12_Preamble(out)
    IN  {lines[k] : k \in DOMAIN lines}
          = {C12_ImportLine(id) : id \in C12_Referenced(input.value)}

\* the documentation block's line for a sub-shape field, in the required
\* notation and in the bracketed one
C13_RequiredDoc(field) == "  options." \o field \o " - "

C13_BracketedDoc(field) == " [options." \o field \o "] - "

\* what C13 says of the method text of an operation and of the text of its
\* options declaration
C13_Holds(operation, method, declaration) ==
  \A shape \in SubShapes :
    LET group == byParamType(operation.parameters, shape[2]) IN
    group # <<>> =>
      /\ includes(method, C13_RequiredDoc(shape[1]))
           <=> includes(declaration, RequiredField(shape[1]))
      /\ includes(method, C13_BracketedDoc(shape[1]))
           <=> includes(declaration, OptionalField(shape[1]))
      /\ includes(method, C13_RequiredDoc(shape[1])) <=> someRequired(group)
      /\ includes(method, C13_BracketedDoc(shape[1])) <=> ~someRequired(group)

\* C13: the documentation block of a method agrees with the method's options
\* declaration: for each non-empty parameter group the line of options.body,
\* options.query or options.params is in the required notation if and only
\* if the sub-shape field of the declaration is required, that is if and only
\* if some parameter of the group is required.
C13_DocAgreesWithDeclaration ==
  (pc = "getTsOperation" /\ variant = 1) =>
    C13_Holds(input.value, out, getTsOperationOptionsInterface(input.value, options))

\* C13 for the operations of which no parameter is required
C13_NoneRequired ==
  (pc = "getTsOperation" /\ variant = 1 /\ ~someRequired(input.value.parameters)) =>
    C13_Holds(input.value, out, getTsOperationOptionsInterface(input.value, options))


====
